---- MODULE Spec2Model ----
(***************************************************************************)
(* RFC 3389 comfort noise decoder, libavcodec/cngdec.c (libav 9.8).        *)
(*                                                                         *)
(* Number representation.  The C ints (energy, target_energy, order, the   *)
(* 16-bit excitation draw) are modelled as integers, exactly.  The C       *)
(* floats are held in fixed point:                                         *)
(*   - reflection / LPC coefficients, e and scaling in units of 1/CoefOne  *)
(*     (1/128, the quantum of the wire format, so every target coefficient *)
(*     and every memcpy of one is exact);                                  *)
(*   - samples (excitation, filter_out) in units of 1.                     *)
(* A float operation is the exact operation followed by rounding to the    *)
(* nearest representable value (RoundDiv).                                 *)
(***************************************************************************)
EXTENDS Integers, Sequences, FiniteSets, TLC

VARIABLES
  phase,    \* lifecycle of the AVCodecContext: "opened", "ready", "init_failed", "closed"
  avctx,    \* AVCodecContext fields written by the decoder
  p,        \* CNGContext (priv_data)
  heap,     \* av_mallocz / av_free bookkeeping of the five buffers
  call,     \* the last call: its arguments, the state it started from, its results
  mk        \* one run of make_lpc_coefs, statement by statement

vars == <<phase, avctx, p, heap, call, mk>>

-----------------------------------------------------------------------------
(* Bounds of the model *)

MaxDecodes == 3      \* decode calls per stream in Spec
MaxWideDecodes == 2  \* decode calls per stream in WideSpec
MaxLpcOrder == 4     \* largest order make_lpc_coefs is run with in LpcSpec

-----------------------------------------------------------------------------
(* Program constants *)

order_init == 12         \* p->order = 12
frame_size_init == 640   \* avctx->frame_size = 640
sample_rate_init == 8000
ENOMEM == 12
BufCap == 100            \* float buf[100]
K == 1081109975
CoefOne == 128           \* / 128.0
CoefBias == 127          \* data[1 + i] - 127
Mask16 == 65536          \* & 0xffff
Half16 == 32768          \* - 0x8000

BufNames == {"refl_coef", "target_refl_coef", "lpc_coef", "filter_out", "excitation"}

-----------------------------------------------------------------------------
(* Arithmetic *)

Min(a, b) == IF a < b THEN a ELSE b

\* a / b rounded to the nearest integer (b > 0)
RoundDiv(a, b) == (2 * a + b) \div (2 * b)

\* product of two values in units of 1/CoefOne, or of one such value and a sample
FMul(a, b) == RoundDiv(a * b, CoefOne)

\* floor of the square root, for 0 <= n <= CoefOne^2
ISqrt(n) == CHOOSE r \in 0..CoefOne : r * r <= n /\ n < (r + 1) * (r + 1)

Zeros(n) == [i \in 1..n |-> 0]

-----------------------------------------------------------------------------
(* make_lpc_coefs, cngdec.c:82-97.                                         *)
(* mem holds the two arrays the pointers next and cur range over: the      *)
(* caller's lpc and the local buf.  tag records, for every cell, the       *)
(* iteration m that last wrote it (-1: not written by this call); refl_in  *)
(* is the caller's refl as it was on entry.                                *)

\* float buf[100]; next = buf; cur = lpc;
LpcEnter(lpc, refl, ord, garbage) ==
  [mem   |-> [lpc |-> lpc, buf |-> [i \in 1..BufCap |-> garbage]],
   tag   |-> [lpc |-> [i \in 1..Len(lpc) |-> -1], buf |-> [i \in 1..BufCap |-> -1]],
   next  |-> "buf",
   cur   |-> "lpc",
   refl  |-> refl,
   refl_in |-> refl,
   order |-> ord,
   m     |-> 0,
   reads_ok |-> TRUE,
   pc    |-> "loop"]

\* next[i] = cur[i] + refl[m] * cur[m - i - 1];   for i = from .. m-1, in order
RECURSIVE LpcInner(_, _)
LpcInner(s, i) ==
  IF i >= s.m THEN s
  ELSE LET a == s.mem[s.cur][i + 1]
           b == s.mem[s.cur][s.m - i]
           v == a + FMul(s.refl[s.m + 1], b)
           fresh == s.tag[s.cur][i + 1] = s.m - 1 /\ s.tag[s.cur][s.m - i] = s.m - 1
       IN LpcInner([s EXCEPT !.mem[s.next][i + 1] = v,
                             !.tag[s.next][i + 1] = s.m,
                             !.reads_ok = s.reads_ok /\ fresh], i + 1)

\* FFSWAP(float*, next, cur);
LpcSwap(s) == [s EXCEPT !.next = s.cur, !.cur = s.next]

\* one iteration of the loop over m
LpcIter(s) ==
  LET s1 == [s EXCEPT !.mem[s.next][s.m + 1] = s.refl[s.m + 1],
                      !.tag[s.next][s.m + 1] = s.m]
      s2 == LpcInner(s1, 0)
      s3 == LpcSwap(s2)
  IN [s3 EXCEPT !.m = s.m + 1]

\* Faulty variant: the return without the trailing memcpy
LpcExit_NoCopy(s) == [s EXCEPT !.pc = "done"]

\* if (cur != lpc) memcpy(lpc, cur, sizeof(*lpc) * order);
LpcExit(s) ==
  IF s.cur # "lpc"
  THEN [s EXCEPT !.mem.lpc = [i \in 1..Len(s.mem.lpc) |->
                                 IF i <= s.order THEN s.mem[s.cur][i] ELSE s.mem.lpc[i]],
                 !.pc = "done"]
  ELSE [s EXCEPT !.pc = "done"]

RECURSIVE LpcLoop(_)
LpcLoop(s) == IF s.m < s.order THEN LpcLoop(LpcIter(s)) ELSE s

\* the whole call: the contents of lpc on return
make_lpc_coefs(lpc, refl, ord, garbage) ==
  LpcExit(LpcLoop(LpcEnter(lpc, refl, ord, garbage))).mem.lpc

\* The canonical step-up recursion: a_m[m] = refl[m], a_m[i] = a_{m-1}[i] + refl[m]*a_{m-1}[m-1-i]
RECURSIVE StepUp(_, _)
StepUp(refl, n) ==
  IF n = 0 THEN << >>
  ELSE LET prev == StepUp(refl, n - 1)
       IN [i \in 1..n |-> IF i = n THEN refl[n]
                          ELSE prev[i] + FMul(refl[n], prev[n - i])]

-----------------------------------------------------------------------------
(* libavutil/lfg.h: av_lfg_init, av_lfg_get.  A deterministic generator     *)
(* with the interface next() -> unsigned integer, seeded once.              *)

LfgMul == 25173
LfgInc == 13849

av_lfg_init(seed) == [seeded |-> TRUE, x |-> seed % Mask16]

\* the generator after one draw; the value drawn is its x
av_lfg_get(lfg) == [lfg EXCEPT !.x = (LfgMul * lfg.x + LfgInc) % Mask16]

-----------------------------------------------------------------------------
(* libavcodec/celp_filters.c: ff_celp_lp_synthesis_filterf.                 *)
(*   out[n] = in[n] - sum_{i=1..filter_length} filter_coeffs[i-1]*out[n-i]  *)
(* buf is the memory from out - filter_length up to the sample before n.    *)

RECURSIVE FilterTaps(_, _, _, _)
FilterTaps(buf, filter_coeffs, filter_length, i) ==
  IF i > filter_length THEN 0
  ELSE (IF filter_coeffs[i] = 0 THEN 0 ELSE filter_coeffs[i] * buf[Len(buf) + 1 - i])
       + FilterTaps(buf, filter_coeffs, filter_length, i + 1)

FilterSample(buf, filter_coeffs, in_n, filter_length) ==
  Append(buf, in_n - RoundDiv(FilterTaps(buf, filter_coeffs, filter_length, 1), CoefOne))

\* samples lo..hi of the block, in order
RECURSIVE FilterRange(_, _, _, _, _, _)
FilterRange(buf, filter_coeffs, in, filter_length, lo, hi) ==
  IF lo = hi THEN FilterSample(buf, filter_coeffs, in[lo], filter_length)
  ELSE LET mid  == (lo + hi) \div 2
           left == FilterRange(buf, filter_coeffs, in, filter_length, lo, mid)
       IN IF Len(left) > 0
          THEN FilterRange(left, filter_coeffs, in, filter_length, mid + 1, hi)
          ELSE left

\* history (the filter_length samples before out) followed by the buffer_length samples written
ff_celp_lp_synthesis_filterf(history, filter_coeffs, in, buffer_length, filter_length) ==
  FilterRange(history, filter_coeffs, in, filter_length, 1, buffer_length)

-----------------------------------------------------------------------------
(* cng_decode_init / cng_decode_close, cngdec.c:42-80 *)

\* priv_data as avcodec_open2 hands it to init: av_mallocz(priv_data_size)
ZeroContext ==
  [refl_coef |-> << >>, target_refl_coef |-> << >>, lpc_coef |-> << >>,
   order |-> 0, energy |-> 0, target_energy |-> 0, inited |-> 0,
   filter_out |-> << >>, excitation |-> << >>,
   lfg |-> [seeded |-> FALSE, x |-> 0],
   avframe |-> [nb_samples |-> 0]]

ZeroAvctx == [sample_rate |-> 0, channels |-> 0, frame_size |-> 0]

NullHeap == [b \in BufNames |-> [state |-> "null", frees |-> 0]]

\* number of elements of each buffer
BufSize(b, ord, frame_size) ==
  CASE b = "filter_out" -> frame_size + ord
    [] b = "excitation" -> frame_size
    [] OTHER            -> ord

\* av_free(ptr)
av_free(cell) ==
  IF cell.state = "null" THEN cell
  ELSE [state |-> "freed", frees |-> cell.frees + 1]

\* cng_decode_close: av_free of the five pointers
cng_decode_close(h) == [b \in BufNames |-> av_free(h[b])]

\* Faulty variant: the error return without cng_decode_close
cng_decode_init_leak(ctx, fails) ==
  [p |-> [ctx EXCEPT !.order = order_init,
             !.refl_coef = IF "refl_coef" \in fails THEN << >> ELSE Zeros(order_init),
             !.target_refl_coef = IF "target_refl_coef" \in fails THEN << >> ELSE Zeros(order_init),
             !.lpc_coef = IF "lpc_coef" \in fails THEN << >> ELSE Zeros(order_init),
             !.filter_out = IF "filter_out" \in fails THEN << >>
                            ELSE Zeros(frame_size_init + order_init),
             !.excitation = IF "excitation" \in fails THEN << >> ELSE Zeros(frame_size_init),
             !.lfg = IF fails = {} THEN av_lfg_init(0) ELSE ctx.lfg],
   avctx |-> [sample_rate |-> sample_rate_init, channels |-> 1, frame_size |-> frame_size_init],
   heap |-> [b \in BufNames |-> IF b \in fails THEN [state |-> "null", frees |-> 0]
                                ELSE [state |-> "live", frees |-> 0]],
   ret |-> IF fails = {} THEN 0 ELSE -ENOMEM]

\* cng_decode_init; fails is the set of buffers whose av_mallocz returns NULL
cng_decode_init(ctx, fails) ==
  LET alloc(b) == IF b \in fails THEN << >>
                  ELSE Zeros(BufSize(b, order_init, frame_size_init))
      h0 == [b \in BufNames |->
               IF b \in fails THEN [state |-> "null", frees |-> 0]
               ELSE [state |-> "live", frees |-> 0]]
      c0 == [ctx EXCEPT !.order = order_init,
                        !.refl_coef = alloc("refl_coef"),
                        !.target_refl_coef = alloc("target_refl_coef"),
                        !.lpc_coef = alloc("lpc_coef"),
                        !.filter_out = alloc("filter_out"),
                        !.excitation = alloc("excitation")]
      a0 == [sample_rate |-> sample_rate_init, channels |-> 1,
             frame_size |-> frame_size_init]
  IN IF fails # {}
     THEN [p |-> c0, avctx |-> a0, heap |-> cng_decode_close(h0), ret |-> -ENOMEM]
     ELSE [p |-> [c0 EXCEPT !.lfg = av_lfg_init(0)], avctx |-> a0, heap |-> h0, ret |-> 0]

\* Faulty variant: a flush that also clears the filter memory
cng_decode_flush_reset(ctx) ==
  [ctx EXCEPT !.inited = 0, !.filter_out = Zeros(Len(ctx.filter_out))]

\* cng_decode_flush
cng_decode_flush(ctx) == [ctx EXCEPT !.inited = 0]

-----------------------------------------------------------------------------
(* cng_decode_frame, cngdec.c:105-162 *)

\* (int)(1081109975 * pow(10, dbov / 10.0) * 0.75) for dbov = -data0, data0 = 0..89;
\* the product is below 1 for every larger byte
TargetEnergyTable ==
  <<
     810832481, 644067133, 511600709, 406378888, 322798224, 256407744,
     203671910, 161782349, 128508287, 102077761, 81083248, 64406713,
     51160070, 40637888, 32279822, 25640774, 20367191, 16178234,
     12850828, 10207776, 8108324, 6440671, 5116007, 4063788,
     3227982, 2564077, 2036719, 1617823, 1285082, 1020777,
     810832, 644067, 511600, 406378, 322798, 256407,
     203671, 161782, 128508, 102077, 81083, 64406,
     51160, 40637, 32279, 25640, 20367, 16178,
     12850, 10207, 8108, 6440, 5116, 4063,
     3227, 2564, 2036, 1617, 1285, 1020,
     810, 644, 511, 406, 322, 256,
     203, 161, 128, 102, 81, 64,
     51, 40, 32, 25, 20, 16,
     12, 10, 8, 6, 5, 4,
     3, 2, 2, 1, 1, 1 >>

TargetEnergy(data0) ==
  IF data0 < Len(TargetEnergyTable) THEN TargetEnergyTable[data0 + 1] ELSE 0

\* (avpkt->data[1 + i] - 127) / 128.0
CoefOfByte(byte) == byte - CoefBias

\* the number of coefficients the loop of line 120 writes
CoefCount(size, ord) == Min(size - 1, ord)

\* Faulty variant: the target update without the memset
Ingest_NoMemset(ctx, pkt) ==
  IF Len(pkt) # 0
  THEN [ctx EXCEPT
          !.target_energy = TargetEnergy(pkt[1]),
          !.target_refl_coef = [i \in 1..ctx.order |->
             IF i <= CoefCount(Len(pkt), ctx.order) THEN CoefOfByte(pkt[1 + i])
             ELSE ctx.target_refl_coef[i]]]
  ELSE ctx

\* lines 116-123: the target update
Ingest(ctx, pkt) ==
  IF Len(pkt) # 0
  THEN [ctx EXCEPT
          !.target_energy = TargetEnergy(pkt[1]),
          !.target_refl_coef = [i \in 1..ctx.order |->
             IF i <= CoefCount(Len(pkt), ctx.order) THEN CoefOfByte(pkt[1 + i]) ELSE 0]]
  ELSE ctx

\* Faulty variant: the sum halved once
SmoothEnergy_SumFirst(energy, target_energy) == (energy + target_energy) \div 2

\* p->energy / 2 + p->target_energy / 2 (C int division; both are >= 0)
SmoothEnergy(energy, target_energy) == energy \div 2 + target_energy \div 2

\* 0.6 * p->refl_coef[i] + 0.4 * p->target_refl_coef[i]
SmoothCoef(refl, target) == RoundDiv(6 * refl + 4 * target, 10)

\* Faulty variant: the blend applied to the first frame too
Smooth_AlwaysBlend(ctx) ==
  [ctx EXCEPT
     !.energy = ctx.energy \div 2 + ctx.target_energy \div 2,
     !.refl_coef = [i \in 1..ctx.order |->
                      RoundDiv(6 * ctx.refl_coef[i] + 4 * ctx.target_refl_coef[i], 10)],
     !.inited = 1]

\* lines 125-133
Smooth(ctx) ==
  IF ctx.inited # 0
  THEN [ctx EXCEPT
          !.energy = SmoothEnergy(ctx.energy, ctx.target_energy),
          !.refl_coef = [i \in 1..ctx.order |->
                           SmoothCoef(ctx.refl_coef[i], ctx.target_refl_coef[i])]]
  ELSE [ctx EXCEPT !.energy = ctx.target_energy,
                   !.refl_coef = ctx.target_refl_coef,
                   !.inited = 1]

\* e *= 1.0 - refl_coef[i] * refl_coef[i], from e = 1.0, for i = from .. order
RECURSIVE PredictionGain(_, _, _)
PredictionGain(refl, i, e) ==
  IF i > Len(refl) THEN e
  ELSE PredictionGain(refl, i + 1, FMul(e, CoefOne - FMul(refl[i], refl[i])))

\* sqrt(e * p->energy / 1081109975)
Scaling(e, energy) == ISqrt((e * (energy \div (K \div (CoefOne * CoefOne)))) \div CoefOne)

\* lines 140-143: draws lo..hi; s is [lfg, excitation]
ExciteSample(s, scaling) ==
  LET g == av_lfg_get(s.lfg)
      r == (g.x % Mask16) - Half16
  IN [lfg |-> g, excitation |-> Append(s.excitation, FMul(scaling, r))]

RECURSIVE ExciteRange(_, _, _, _)
ExciteRange(s, scaling, lo, hi) ==
  IF lo = hi THEN ExciteSample(s, scaling)
  ELSE LET mid  == (lo + hi) \div 2
           left == ExciteRange(s, scaling, lo, mid)
       IN IF left.lfg.x >= 0 THEN ExciteRange(left, scaling, mid + 1, hi) ELSE left

Excite(ctx, scaling, frame_size) ==
  LET s == ExciteRange([lfg |-> ctx.lfg, excitation |-> << >>], scaling, 1, frame_size)
  IN [ctx EXCEPT !.lfg = s.lfg, !.excitation = s.excitation]

\* lines 144-145; filter_out + order is the output, the order samples before it the history
Synthesize(ctx, frame_size) ==
  [ctx EXCEPT !.filter_out =
     ff_celp_lp_synthesis_filterf(SubSeq(ctx.filter_out, 1, ctx.order), ctx.lpc_coef,
                                  ctx.excitation, frame_size, ctx.order)]

\* buf_out[i] = p->filter_out[i + p->order]: float to int16_t; out of range the
\* conversion is undefined, ub names the outcome of the build
CastInt16(x, ub) ==
  IF -Half16 <= x /\ x < Half16 THEN x
  ELSE IF ub = "wrap" THEN ((x + Half16) % Mask16) - Half16
  ELSE IF x < 0 THEN -Half16 ELSE Half16 - 1

UbOutcomes == {"wrap", "saturate"}

\* lines 152-156
CarryHistory(ctx, frame_size) ==
  [ctx EXCEPT !.filter_out = [i \in 1..Len(ctx.filter_out) |->
      IF i <= ctx.order THEN ctx.filter_out[frame_size + i] ELSE ctx.filter_out[i]]]

\* the context up to the call of ff_get_buffer (lines 116-147)
DecodeCompute(ctx, av, pkt, garbage) ==
  LET c1 == Smooth(Ingest(ctx, pkt))
      c2 == [c1 EXCEPT !.lpc_coef = make_lpc_coefs(c1.lpc_coef, c1.refl_coef, c1.order, garbage)]
      e  == PredictionGain(c2.refl_coef, 1, CoefOne)
      c3 == Excite(c2, Scaling(e, c2.energy), av.frame_size)
      c4 == Synthesize(c3, av.frame_size)
  IN [c4 EXCEPT !.avframe.nb_samples = av.frame_size]

\* Faulty variant: the return value counts only the bytes the target update reads
DecodeReturn_UsedBytes(c, av, pkt, buffer_ok, ub) ==
  IF ~buffer_ok
  THEN [p |-> c, ret |-> -ENOMEM, got_frame |-> 0, buf_out |-> << >>]
  ELSE [p |-> [c EXCEPT !.filter_out = [i \in 1..Len(c.filter_out) |->
                  IF i <= c.order THEN c.filter_out[av.frame_size + i] ELSE c.filter_out[i]]],
        ret |-> Min(Len(pkt), c.order + 1),
        got_frame |-> 1,
        buf_out |-> [i \in 1..av.frame_size |-> c.filter_out[i + c.order]]]

\* lines 148-161; buffer_ok is the outcome of ff_get_buffer
DecodeReturn(c, av, pkt, buffer_ok, ub) ==
  IF ~buffer_ok
  THEN [p |-> c, ret |-> -ENOMEM, got_frame |-> 0, buf_out |-> << >>]
  ELSE [p |-> CarryHistory(c, av.frame_size),
        ret |-> Len(pkt),
        got_frame |-> 1,
        buf_out |-> [i \in 1..av.frame_size |-> CastInt16(c.filter_out[i + c.order], ub)]]

\* the whole call
cng_decode_frame(ctx, av, pkt, buffer_ok, garbage, ub) ==
  DecodeReturn(DecodeCompute(ctx, av, pkt, garbage), av, pkt, buffer_ok, ub)

-----------------------------------------------------------------------------
(* The callers: avcodec_open2, avcodec_decode_audio4, avcodec_flush_buffers, *)
(* avcodec_close, driving the AVCodec entry points of cngdec.c:164-177.      *)

\* SID payloads of Spec: none; level 0 dBov only; level -127 dBov and one coefficient byte 255
Payloads == { << >>, <<0>>, <<127, 255>> }

\* contents the stack may hold where buf is placed
StackGarbage == {0, 77}

NoCall ==
  [op |-> "open", pkt |-> << >>, buffer_ok |-> TRUE, fails |-> {},
   ret |-> 0, got_frame |-> 0, buf_out |-> << >>, n_decodes |-> 0,
   pre_inited |-> 0, pre_energy |-> 0, pre_target_energy |-> 0,
   pre_target_refl_coef |-> << >>]

LpcIdle == [LpcEnter(<< >>, << >>, 0, 0) EXCEPT !.pc = "idle"]

Init ==
  /\ phase = "opened"
  /\ avctx = ZeroAvctx
  /\ p = ZeroContext
  /\ heap = NullHeap
  /\ call = NoCall
  /\ mk = LpcIdle

\* .init = cng_decode_init
DecodeInit(fails) ==
  /\ phase = "opened"
  /\ LET r == cng_decode_init(p, fails)
     IN /\ p' = r.p
        /\ avctx' = r.avctx
        /\ heap' = r.heap
        /\ phase' = IF r.ret = 0 THEN "ready" ELSE "init_failed"
        /\ call' = [call EXCEPT !.op = "init", !.fails = fails, !.ret = r.ret]
  /\ UNCHANGED mk

\* .decode = cng_decode_frame; the caller clears *got_frame_ptr before the call.
\* pkt is the payload, oks the outcomes ff_get_buffer may have, limit the cap on calls.
Decode(pkt, oks, limit) ==
  /\ phase = "ready"
  /\ call.n_decodes < limit
  /\ \E c \in {DecodeCompute(p, avctx, pkt, garbage) : garbage \in StackGarbage} :
     \E buffer_ok \in oks :
     \E r \in {DecodeReturn(c, avctx, pkt, buffer_ok, ub) : ub \in UbOutcomes} :
        /\ p' = r.p
        /\ call' = [op |-> "decode", pkt |-> pkt, buffer_ok |-> buffer_ok,
                    fails |-> call.fails,
                    ret |-> r.ret, got_frame |-> r.got_frame, buf_out |-> r.buf_out,
                    n_decodes |-> call.n_decodes + 1,
                    pre_inited |-> p.inited, pre_energy |-> p.energy,
                    pre_target_energy |-> p.target_energy,
                    pre_target_refl_coef |-> p.target_refl_coef]
  /\ UNCHANGED <<phase, avctx, heap, mk>>

\* .flush = cng_decode_flush
Flush ==
  /\ phase = "ready"
  /\ p' = cng_decode_flush(p)
  /\ call' = [call EXCEPT !.op = "flush"]
  /\ UNCHANGED <<phase, avctx, heap, mk>>

\* .close = cng_decode_close
Close ==
  /\ phase = "ready"
  /\ heap' = cng_decode_close(heap)
  /\ phase' = "closed"
  /\ call' = [call EXCEPT !.op = "close", !.ret = 0]
  /\ UNCHANGED <<avctx, p, mk>>

Next ==
  \/ \E fails \in SUBSET BufNames : DecodeInit(fails)
  \/ \E pkt \in Payloads : Decode(pkt, BOOLEAN, MaxDecodes)
  \/ Flush
  \/ Close

Spec == Init /\ [][Next]_vars

-----------------------------------------------------------------------------
(* WideSpec: one stream whose buffers are always granted, fed SID payloads  *)
(* of many lengths (shorter than, equal to and longer than order + 1).      *)

\* coefficient byte at payload index i (2 <= i) of the two byte patterns
PatternByte(pat, i) ==
  IF pat = "ramp" THEN 100 + 8 * (i - 2)
  ELSE IF i = 2 THEN 255 ELSE (40 * i) % 256

SidPayload(len, level, pat) ==
  [i \in 1..len |-> IF i = 1 THEN level ELSE PatternByte(pat, i)]

WideLengths == {0, 1, 7, 13, 14}

WidePayloads ==
  {SidPayload(len, 20, "ramp") : len \in WideLengths}
    \cup {SidPayload(len, 89, "mixed") : len \in {2, 13}}

WideNext ==
  \/ DecodeInit({})
  \/ \E pkt \in WidePayloads : Decode(pkt, {TRUE}, MaxWideDecodes)
  \/ Flush
  \/ Close

WideSpec == Init /\ [][WideNext]_vars

-----------------------------------------------------------------------------
(* LpcSpec: make_lpc_coefs alone, one loop iteration per step, for every    *)
(* order up to MaxLpcOrder, over reflection coefficients of LpcCoefs, lpc   *)
(* holding the previous frame's values and buf holding stack garbage.       *)

LpcCoefs == {-64, 0, 51, 128}
LpcOld == {0, 33}

LpcInit ==
  /\ phase = "opened"
  /\ avctx = ZeroAvctx
  /\ p = ZeroContext
  /\ heap = NullHeap
  /\ call = NoCall
  /\ \E ord \in 1..MaxLpcOrder :
     \E refl \in [1..ord -> LpcCoefs], old \in LpcOld, garbage \in StackGarbage :
        mk = LpcEnter([i \in 1..ord |-> old], refl, ord, garbage)

\* the body of the loop over m
LpcIterate ==
  /\ mk.pc = "loop"
  /\ mk.m < mk.order
  /\ mk' = LpcIter(mk)
  /\ UNCHANGED <<phase, avctx, p, heap, call>>

\* the loop condition fails: the trailing memcpy and the return
LpcReturn ==
  /\ mk.pc = "loop"
  /\ mk.m >= mk.order
  /\ mk' = LpcExit(mk)
  /\ UNCHANGED <<phase, avctx, p, heap, call>>

LpcNext == LpcIterate \/ LpcReturn

LpcSpec == LpcInit /\ [][LpcNext]_vars

-----------------------------------------------------------------------------
(* Properties *)

\* the step is a call of cng_decode_frame
DecodeStep == call'.op = "decode" /\ call'.n_decodes = call.n_decodes + 1

\* the order samples the synthesis filter starts from
History(ctx) == SubSeq(ctx.filter_out, 1, ctx.order)

\* the last order samples of the block the synthesis filter wrote
OutputTail(ctx, frame_size) == SubSeq(ctx.filter_out, frame_size + 1, frame_size + ctx.order)

\* the generator after n draws
LfgAfter(lfg, n) == ExciteRange([lfg |-> lfg, excitation |-> << >>], 0, 1, n).lfg

\* the coefficient slot i of the target a payload pkt sets, in units of 1/CoefOne
WireCoef(pkt, i) == IF i < Len(pkt) THEN pkt[1 + i] - 127 ELSE 0

(* C1: a decode call whose output buffer is granted reports one frame of    *)
(* frame_size (640) samples and returns the full payload length, whatever   *)
(* the payload length and the decoder state.                                *)
C1_FrameProduced ==
  (call.op = "decode" /\ call.buffer_ok) =>
     /\ call.got_frame = 1
     /\ Len(call.buf_out) = 640
     /\ p.avframe.nb_samples = 640
     /\ call.ret = Len(call.pkt)

C1_Witness ==
  /\ call.op = "decode" /\ call.buffer_ok
  /\ Len(call.pkt) = 14 /\ call.ret = 14
  /\ call.pre_inited = 1
  /\ call.got_frame = 1

(* C2: a decode call made while inited is 0 leaves energy = target_energy   *)
(* and refl_coef = target_refl_coef, the target being the one the call's    *)
(* own payload sets when it is not empty, and sets inited, which then stays *)
(* set until a flush.                                                       *)
C2_FirstFrameSnap ==
  [][ /\ (DecodeStep /\ p.inited = 0) =>
            /\ p'.energy = p'.target_energy
            /\ p'.refl_coef = p'.target_refl_coef
            /\ p'.inited = 1
            /\ Len(call'.pkt) > 0 =>
                 /\ p'.target_energy = TargetEnergy(call'.pkt[1])
                 /\ \A i \in 1..p.order : p'.target_refl_coef[i] = WireCoef(call'.pkt, i)
      /\ (p.inited = 1 /\ call'.op # "flush") => p'.inited = 1
    ]_vars

C2_Witness ==
  /\ call.op = "decode" /\ call.pre_inited = 0 /\ call.n_decodes >= 2
  /\ Len(call.pkt) > 0
  /\ p.inited = 1
  /\ p.energy = p.target_energy /\ p.energy # call.pre_energy
  /\ p.refl_coef = p.target_refl_coef /\ p.refl_coef[1] # 0

(* C3, as claimed: on a decode call made while inited is set the new energy *)
(* is exactly 0.5 * old energy + 0.5 * target_energy.                       *)
C3_ExactHalves ==
  [][ (DecodeStep /\ p.inited = 1) => 2 * p'.energy = p.energy + p'.target_energy ]_vars

(* C3, amended: the new energy is old energy / 2 + target_energy / 2 in C   *)
(* int division, which is the exact mean or 1 below it; under a held target *)
(* the energy moves strictly towards the target from above it and from more *)
(* than 2 below it, and stays in [target - 2, target] once there.           *)
C3_TruncatedHalves ==
  [][ (DecodeStep /\ p.inited = 1) =>
        LET e == p.energy
            t == p'.target_energy
            n == p'.energy
        IN /\ n = e \div 2 + t \div 2
           /\ 2 * n <= e + t /\ e + t <= 2 * n + 2
           /\ (e > t) => (t <= n /\ n < e)
           /\ (e < t - 2) => (e < n /\ n < t)
           /\ (t - 2 <= e /\ e <= t) => (t - 2 <= n /\ n <= t)
    ]_vars

C3_Witness ==
  /\ call.op = "decode" /\ call.pre_inited = 1
  /\ call.pre_energy = p.target_energy
  /\ p.energy = p.target_energy - 1

(* C4: flush clears inited and changes nothing else of the decoder: the     *)
(* filter memory, both energies, both coefficient sets and the generator    *)
(* are as before; the generator, once seeded by init, is only ever advanced *)
(* by the frame_size draws of a decode call.                                *)
C4_FlushFrame ==
  [][ /\ call'.op = "flush" =>
            /\ p' = [p EXCEPT !.inited = 0]
            /\ p'.inited = 0
            /\ avctx' = avctx /\ heap' = heap /\ phase' = phase
      /\ p.lfg.seeded =>
            /\ p'.lfg.seeded
            /\ p'.lfg = IF DecodeStep THEN LfgAfter(p.lfg, avctx.frame_size) ELSE p.lfg
    ]_vars

C4_Witness ==
  /\ call.op = "flush" /\ call.n_decodes >= 1
  /\ p.inited = 0
  /\ p.energy > 0
  /\ \E i \in 1..p.order : p.filter_out[i] # 0
  /\ p.lfg # av_lfg_init(0)

(* C5: between calls the leading order entries of filter_out equal the      *)
(* trailing order samples of the output the previous decode call            *)
(* synthesized (all zero before the first frame), also when that call       *)
(* failed to get its output buffer.                                         *)
C5_Continuity ==
  phase = "ready" => History(p) = OutputTail(p, avctx.frame_size)

(* C6: a non-empty payload of length L sets target_refl_coef[i] to          *)
(* (payload[1+i] - 127)/128 for i < min(L-1, order) and to 0 for the other  *)
(* i < order; the bytes after index order change nothing of the decoder;    *)
(* an empty payload leaves target_energy and target_refl_coef as they were. *)
C6_TargetUpdate ==
  [][ DecodeStep =>
        LET pkt == call'.pkt
        IN IF Len(pkt) = 0
           THEN /\ p'.target_energy = p.target_energy
                /\ p'.target_refl_coef = p.target_refl_coef
           ELSE /\ Len(p'.target_refl_coef) = p.order
                /\ \A i \in 1..p.order : p'.target_refl_coef[i] = WireCoef(pkt, i)
                /\ Len(pkt) > p.order + 1 =>
                     \E garbage \in StackGarbage, ub \in UbOutcomes :
                        p' = cng_decode_frame(p, avctx, SubSeq(pkt, 1, p.order + 1),
                                              call'.buffer_ok, garbage, ub).p
    ]_vars

C6_Witness ==
  /\ call.op = "decode"
  /\ Len(call.pkt) = 2
  /\ call.pre_target_refl_coef[1] # p.target_refl_coef[1]
  /\ call.pre_target_refl_coef[2] # 0
  /\ p.target_refl_coef[1] = call.pkt[2] - 127
  /\ \A i \in 2..p.order : p.target_refl_coef[i] = 0

(* C7: every entry of refl_coef lies strictly between -1 and 1.             *)
C7_CoefRange ==
  \A i \in 1..Len(p.refl_coef) : -CoefOne < p.refl_coef[i] /\ p.refl_coef[i] < CoefOne

(* The energy part of the silence limit: on a decode call that leaves       *)
(* target_energy at 0 the energy does not grow, shrinks while it is not 0,  *)
(* and once it is 0 every excitation sample is 0.                           *)
SilenceEnergy ==
  [][ (DecodeStep /\ p'.target_energy = 0) =>
        /\ p'.energy <= p.energy
        /\ p.energy > 0 => p'.energy < p.energy
        /\ p'.energy = 0 => \A i \in 1..Len(p'.excitation) : p'.excitation[i] = 0
    ]_vars

(* C8: once target_energy is 0 and held, the energy does not grow, reaches  *)
(* 0 and stays 0, the excitation is then 0 and the output dies away: a      *)
(* silent frame that is delivered cannot hand the next frame the very       *)
(* non-zero history it started from while the coefficients stand still,     *)
(* for the output would then repeat for ever.                               *)
C8_SilenceLimit ==
  [][ (DecodeStep /\ p'.target_energy = 0) =>
        /\ p'.energy <= p.energy
        /\ p.energy > 0 => p'.energy < p.energy
        /\ p'.energy = 0 => \A i \in 1..Len(p'.excitation) : p'.excitation[i] = 0
        /\ ( /\ call'.buffer_ok
             /\ p.energy = 0 /\ p'.energy = 0 /\ p.target_energy = 0
             /\ p'.refl_coef = p.refl_coef
             /\ p'.target_refl_coef = p.target_refl_coef
             /\ History(p') = History(p) )
           => \A i \in 1..p.order : p.filter_out[i] = 0
    ]_vars

(* C9: if any of the five allocations of init fails, init returns           *)
(* AVERROR(ENOMEM), every buffer that was allocated has been freed exactly  *)
(* once and the generator is not seeded; if none fails it returns 0 with    *)
(* the buffers zero-filled, order 12, frame_size 640 and inited 0.          *)
C9_InitOutcome ==
  call.op = "init" =>
    IF call.fails # {}
    THEN /\ call.ret = -12
         /\ phase = "init_failed"
         /\ \A b \in BufNames :
              heap[b] = IF b \in call.fails THEN [state |-> "null", frees |-> 0]
                        ELSE [state |-> "freed", frees |-> 1]
         /\ ~p.lfg.seeded
    ELSE /\ call.ret = 0
         /\ phase = "ready"
         /\ \A b \in BufNames : heap[b] = [state |-> "live", frees |-> 0]
         /\ p.order = 12 /\ avctx.frame_size = 640
         /\ p.inited = 0
         /\ p.lfg.seeded
         /\ Len(p.refl_coef) = 12 /\ Len(p.target_refl_coef) = 12 /\ Len(p.lpc_coef) = 12
         /\ Len(p.filter_out) = 652 /\ Len(p.excitation) = 640
         /\ \A b \in BufNames : \A i \in 1..Len(p[b]) : p[b][i] = 0

C9_Witness ==
  /\ call.op = "init"
  /\ call.fails = {"lpc_coef", "excitation"}
  /\ heap["refl_coef"].frees = 1 /\ heap["filter_out"].state = "freed"
  /\ heap["lpc_coef"].state = "null"

(* C10: make_lpc_coefs leaves in lpc the result of the canonical step-up    *)
(* recursion, for odd and for even order; after m iterations the buffer cur *)
(* points at holds the order-m solution; every iteration reads only cells   *)
(* the iteration before it wrote; refl is not modified.                     *)
C10_StepUp ==
  /\ mk.reads_ok
  /\ mk.refl = mk.refl_in
  /\ (mk.pc = "loop" /\ mk.m > 0) => SubSeq(mk.mem[mk.cur], 1, mk.m) = StepUp(mk.refl_in, mk.m)
  /\ mk.pc = "done" => SubSeq(mk.mem.lpc, 1, mk.order) = StepUp(mk.refl_in, mk.order)

C10_Witness ==
  /\ mk.pc = "done" /\ mk.order = 3 /\ mk.cur = "buf"
  /\ mk.mem.buf[BufCap] = 77
  /\ mk.refl_in = <<51, -64, 128>>
  /\ mk.mem.lpc = StepUp(mk.refl_in, 3)
  /\ mk.mem.lpc[1] # mk.refl_in[1]

====
